---- MODULE Spec2Model ----
(***************************************************************************)
(* Model of src/src/index.js: the edge function that relays an uploaded    *)
(* spreadsheet to the Apps Script backend, fetches page batches with an    *)
(* offset/limit cursor, renders each page with a headless browser and      *)
(* streams the images back as a zip archive.                               *)
(*                                                                         *)
(* One request is modelled from its arrival to the end of its handler and  *)
(* of the background task it hands to ctx.waitUntil.  JavaScript runs a    *)
(* handler without preemption between two awaits, so every action is the   *)
(* code executed from one await's settlement to the next await (or to the  *)
(* end of the function).                                                   *)
(***************************************************************************)
EXTENDS Integers, Sequences, FiniteSets, TLC

VARIABLES
    req,            \* the incoming request and the env bindings it runs under
    hpc,            \* position of the fetch handler
    response,       \* the Response the handler returned (status 0: none yet)
    prepReply,      \* the backend's HTTP reply to the prepare call
    prep,           \* /api/run: the prepare step's result
    bpc,            \* position of the background task
    offset,         \* the paging cursor (let offset)
    queue,          \* pages of the current batch not yet written (for..of)
    calls,          \* payloads POSTed to the backend, in order
    resps,          \* buildPages results received, in order
    entries,        \* entries added to the archive, in order
    pendingBuild,   \* backend calls of the task awaiting their result
    pendingRender,  \* renderPng calls awaiting their result
    lastRender,     \* what the last settled renderPng call did
    launches,       \* puppeteer.launch calls
    browser,        \* the browser handle
    closes,         \* browser.close calls
    zipEnds,        \* zip.end calls
    writer,         \* the response stream's writer
    log             \* console.log lines of the task

vars == <<req, hpc, response, prepReply, prep, bpc, offset, queue, calls, resps,
          entries, pendingBuild, pendingRender, lastRender, launches, browser,
          closes, zipEnds, writer, log>>

(***************************************************************************)
(* Bounds of the model.                                                    *)
(***************************************************************************)
MaxBatches == 2
MaxPagesPerBatch == 2

(***************************************************************************)
(* Program constants and value encodings.                                  *)
(***************************************************************************)
Limit == 10

\* JavaScript's undefined where a number is expected (a missing nextOffset).
Undefined == -1

\* JavaScript's undefined / null where a string or a list is expected.
UndefinedStr == "<undefined>"
NullStr == "<null>"

Truthy(v) == v \notin {UndefinedStr, NullStr, ""}

\* Lists are truthy even when empty.
IsArray(v) == v \in {"[]", "[A]", "[P]"}

\* String(v || "")
StringOrEmpty(v) == IF Truthy(v) THEN v ELSE ""

\* String.prototype.trim on the strings of the model.
Trim(str) ==
    CASE str = "  " -> ""
      [] str = " sid " -> "sid"
      [] str = " <!doctype html><title>Sign in</title>" -> "<!doctype html><title>Sign in</title>"
      [] OTHER -> str

(***************************************************************************)
(* Responses: json, errJson.                                               *)
(***************************************************************************)
NoResponse == [status |-> 0, ctype |-> "", body |-> "<none>"]

json(obj, status) ==
    [status |-> status, ctype |-> "application/json; charset=utf-8", body |-> obj]

errJson(message, status) == json([ok |-> FALSE, error |-> message], status)

\* Variant of requireKey: a request without the header is let through.
requireKeyIfSent(r) ==
    IF r.apiKey = "" THEN NullStr
    ELSE IF StringOrEmpty(r.xApiKey) \in {"", r.apiKey} THEN NullStr ELSE "Unauthorized"

requireKey(r) ==
    IF r.apiKey = "" THEN NullStr
    ELSE IF StringOrEmpty(r.xApiKey) = r.apiKey THEN NullStr ELSE "Unauthorized"

(***************************************************************************)
(* appsPost: what it makes of the backend's HTTP reply.                    *)
(***************************************************************************)
HtmlTexts == {"<html><body>login</body></html>", "<!doctype html><title>Sign in</title>"}

StartsWithLt(text) == text \in HtmlTexts

\* (r.headers.get("content-type") || "").toLowerCase().includes("text/html")
CtIsHtml(ct) == ct \in {"text/html; charset=utf-8", "Text/HTML"}

looksHtml(reply) == CtIsHtml(reply.ct) \/ StartsWithLt(Trim(reply.text))

IsJsonText(text) == text = "{json}"

\* A body longer than 200 characters, and its first 200 characters.
LongText ==
    "Bad gateway 01234567890123456789012345678901234567890123456789012345678901234567890123456789012345678901234567890123456789012345678901234567890123456789012345678901234567890123456789012345678901234567890123456789"
LongTextHead ==
    "Bad gateway 01234567890123456789012345678901234567890123456789012345678901234567890123456789012345678901234567890123456789012345678901234567890123456789012345678901234567890123456789012345678901234567"

\* trimmed.slice(0, 200)
Slice200(text) == IF text = LongText THEN LongTextHead ELSE text

HtmlMessage == "Apps Script tra HTML (thuong do deploy chua de Anyone hoac dung sai /exec). Snippet: "

NotJsonMessage == "Apps Script khong tra JSON. Snippet: "

Threw(message) == [threw |-> TRUE, error |-> message, data |-> [ok |-> FALSE]]

Returned(data) == [threw |-> FALSE, error |-> "", data |-> data]

\* Variant of appsPost: the body is parsed first, the HTML check comes after.
appsPostParsesFirst(reply) ==
    IF reply.net = "error" THEN Threw("fetch failed")
    ELSE IF ~IsJsonText(Trim(reply.text))
         THEN Threw(NotJsonMessage \o Slice200(Trim(reply.text)))
    ELSE IF looksHtml(reply) THEN Threw(HtmlMessage \o Slice200(Trim(reply.text)))
    ELSE IF ~reply.json.ok
         THEN Threw(IF Truthy(reply.json.error) THEN reply.json.error ELSE "Apps Script error")
    ELSE Returned(reply.json)

appsPost(reply) ==
    IF reply.net = "error" THEN Threw("fetch failed")
    ELSE IF looksHtml(reply) THEN Threw(HtmlMessage \o Slice200(Trim(reply.text)))
    ELSE IF ~IsJsonText(Trim(reply.text))
         THEN Threw(NotJsonMessage \o Slice200(Trim(reply.text)))
    ELSE IF ~reply.json.ok
         THEN Threw(IF Truthy(reply.json.error) THEN reply.json.error ELSE "Apps Script error")
    ELSE Returned(reply.json)

(***************************************************************************)
(* The state as one record, so that each piece of the handler and of the   *)
(* background task is a function from state to state.                      *)
(***************************************************************************)
Cur ==
    [req |-> req, hpc |-> hpc, response |-> response, prepReply |-> prepReply,
     prep |-> prep, bpc |-> bpc,
     offset |-> offset, queue |-> queue, calls |-> calls, resps |-> resps,
     entries |-> entries, pendingBuild |-> pendingBuild,
     pendingRender |-> pendingRender, lastRender |-> lastRender,
     launches |-> launches, browser |-> browser,
     closes |-> closes, zipEnds |-> zipEnds, writer |-> writer, log |-> log]

Set(s) ==
    /\ req' = s.req
    /\ hpc' = s.hpc
    /\ response' = s.response
    /\ prepReply' = s.prepReply
    /\ prep' = s.prep
    /\ bpc' = s.bpc
    /\ offset' = s.offset
    /\ queue' = s.queue
    /\ calls' = s.calls
    /\ resps' = s.resps
    /\ entries' = s.entries
    /\ pendingBuild' = s.pendingBuild
    /\ pendingRender' = s.pendingRender
    /\ lastRender' = s.lastRender
    /\ launches' = s.launches
    /\ browser' = s.browser
    /\ closes' = s.closes
    /\ zipEnds' = s.zipEnds
    /\ writer' = s.writer
    /\ log' = s.log

(***************************************************************************)
(* The archive encoder (fflate Zip) behind streamZipResponse's callback:   *)
(* a chunk is written to the writer, the final chunk closes it, an error   *)
(* aborts it.  The encoder reports completion once end() was called and    *)
(* every added entry has received its final push.                          *)
(***************************************************************************)
OpenEntries(es) == {i \in 1..Len(es) : es[i].open}

ZipCallback(s, err, final) ==
    IF s.writer # "open" THEN s
    ELSE IF err THEN [s EXCEPT !.writer = "aborted"]
    ELSE IF final THEN [s EXCEPT !.writer = "closed"]
    ELSE s

ZipAdd(s, p) ==
    IF s.zipEnds > 0 THEN ZipCallback(s, TRUE, FALSE)
    ELSE [s EXCEPT !.entries = Append(@, [page |-> p, data |-> 0, open |-> TRUE])]

EntryPush(s, i, bytes, final) ==
    LET s1 == [s EXCEPT !.entries[i].data = bytes, !.entries[i].open = ~final]
    IN  ZipCallback(s1, FALSE, s1.zipEnds > 0 /\ OpenEntries(s1.entries) = {})

ZipEnd(s) ==
    IF s.zipEnds > 0 THEN ZipCallback([s EXCEPT !.zipEnds = @ + 1], TRUE, TRUE)
    ELSE ZipCallback([s EXCEPT !.zipEnds = @ + 1], FALSE, OpenEntries(s.entries) = {})

(***************************************************************************)
(* streamZipResponse: the writer is opened and the 200 response built.     *)
(***************************************************************************)
ZipResponse(filename, outputUrl, outputId) ==
    [status |-> 200, ctype |-> "application/zip", body |-> "<stream>",
     disposition |-> filename,
     xOutputUrl |-> StringOrEmpty(outputUrl), xOutputId |-> StringOrEmpty(outputId)]

streamZipResponse(s) == [s EXCEPT !.writer = "open"]

(***************************************************************************)
(* renderPng: failAt names the step of it that throws ("none": no step).   *)
(* A failure of the font wait (evaluate) is swallowed; page.close is in    *)
(* the finally of the screenshot only.                                     *)
(***************************************************************************)
RenderFailPoints ==
    {"none", "newPage", "setViewport", "setContent", "evaluate", "screenshot", "pageClose"}

\* No renderPng call has settled yet.
NoRender ==
    [failAt |-> "none", threw |-> FALSE, error |-> "", png |-> 0,
     opened |-> FALSE, closed |-> FALSE]

renderPng(html, failAt) ==
    CASE failAt = "newPage" ->
            [failAt |-> failAt, threw |-> TRUE, error |-> "newPage failed", png |-> 0,
             opened |-> FALSE, closed |-> FALSE]
      [] failAt \in {"setViewport", "setContent"} ->
            [failAt |-> failAt, threw |-> TRUE, error |-> failAt \o " failed", png |-> 0,
             opened |-> TRUE, closed |-> FALSE]
      [] failAt \in {"screenshot", "pageClose"} ->
            [failAt |-> failAt, threw |-> TRUE, error |-> failAt \o " failed", png |-> 0,
             opened |-> TRUE, closed |-> TRUE]
      [] OTHER ->
            [failAt |-> failAt, threw |-> FALSE, error |-> "", png |-> html,
             opened |-> TRUE, closed |-> TRUE]

(***************************************************************************)
(* The background task of /api/render and /api/run.                        *)
(***************************************************************************)
IsRun(s) == s.req.path = "/api/run"

\* The identifier sent with every buildPages call.
TaskId(s) ==
    IF IsRun(s) THEN s.prep.outputSpreadsheetId
    ELSE Trim(StringOrEmpty(s.req.bodyId))

\* Variant of TaskHeaders: an empty list falls back to the prepare step's headers.
TaskHeadersNonEmpty(s) ==
    IF IsRun(s)
    THEN IF s.req.selectedHeaders = "[A]" THEN s.req.selectedHeaders ELSE s.prep.headers
    ELSE IF IsArray(s.req.selectedHeaders) THEN s.req.selectedHeaders ELSE NullStr

\* The header filter sent with every buildPages call.
TaskHeaders(s) ==
    IF IsRun(s)
    THEN LET selectedHeaders ==
                 IF Truthy(s.req.selectedHeaders) THEN s.req.selectedHeaders ELSE NullStr
         IN  IF Truthy(selectedHeaders) THEN selectedHeaders ELSE s.prep.headers
    ELSE IF IsArray(s.req.selectedHeaders) THEN s.req.selectedHeaders ELSE NullStr

\* finally: browser.close() is called and awaited.
Finally(s) == [s EXCEPT !.bpc = "close", !.closes = @ + 1]

\* Variant of Catch that also answers the request with the error.
CatchAnswers(s, message) ==
    Finally([s EXCEPT !.log = Append(@, message),
                      !.response = errJson(message, 500)])

\* catch (e): the error is logged, nothing else.
Catch(s, message) == Finally([s EXCEPT !.log = Append(@, message)])

\* appsPost({action: "buildPages", ...}) is called with the current cursor.
IssueBuild(s) ==
    IF ~s.req.appsUrl THEN Catch(s, "Missing env.APPS_SCRIPT_URL")
    ELSE [s EXCEPT !.calls = Append(@, [action |-> "buildPages",
                                         outputSpreadsheetId |-> TaskId(s),
                                         selectedHeaders |-> TaskHeaders(s),
                                         offset |-> s.offset,
                                         limit |-> Limit]),
                   !.pendingBuild = @ + 1,
                   !.bpc = "build"]

\* Variant of BatchPages that ignores the pages of the done batch.
BatchPagesDropLast(pageRes) ==
    IF pageRes.hasPages /\ ~pageRes.done THEN pageRes.pages ELSE <<>>

\* pageRes.pages || []
BatchPages(pageRes) == IF pageRes.hasPages THEN pageRes.pages ELSE <<>>

\* Variant of LoopExit that also stops on an empty batch.
LoopExitOnEmpty(pageRes) == pageRes.done \/ BatchPages(pageRes) = <<>>

\* if (pageRes.done) break;
LoopExit(pageRes) == pageRes.done

\* Variant of NextOffset that advances the cursor locally by the page size.
NextOffsetLocal(off, pageRes) == off + Limit

\* offset = pageRes.nextOffset;
NextOffset(off, pageRes) == pageRes.nextOffset

\* After the for..of of a batch: leave the loop or fetch the next batch.
AfterBatch(s) ==
    LET pageRes == s.resps[Len(s.resps)]
    IN  IF LoopExit(pageRes) THEN Finally(s)
        ELSE IssueBuild([s EXCEPT !.offset = NextOffset(s.offset, pageRes)])

\* Variant of PushFinal: the push does not close the entry.
PushNotFinal == FALSE

\* The second argument of entry.push(pngBytes, true).
PushFinal == TRUE

\* Top of the for..of: the next page's entry is added and its render started.
ForPages(s) ==
    IF s.queue = <<>> THEN AfterBatch(s)
    ELSE [ZipAdd(s, Head(s.queue)) EXCEPT !.pendingRender = @ + 1, !.bpc = "render"]

\* await puppeteer.launch() resolved: the try block is entered.
OnLaunchOk(s) == IssueBuild([s EXCEPT !.browser = "open", !.offset = 0])

\* await puppeteer.launch() rejected, outside the try: the task's promise rejects.
OnLaunchFail(s) == [s EXCEPT !.browser = "failed", !.bpc = "rejected"]

\* Variant of OnBuildReturn: a failed buildPages call is logged and sent again.
OnBuildReturnRetries(s, reply) ==
    LET r  == appsPost(reply)
        s1 == [s EXCEPT !.pendingBuild = @ - 1]
    IN  IF r.threw THEN IssueBuild([s1 EXCEPT !.log = Append(@, r.error)])
        ELSE ForPages([s1 EXCEPT !.resps = Append(@, r.data),
                                 !.queue = BatchPages(r.data)])

\* await appsPost(buildPages) settled.
OnBuildReturn(s, reply) ==
    LET r  == appsPost(reply)
        s1 == [s EXCEPT !.pendingBuild = @ - 1]
    IN  IF r.threw THEN Catch(s1, r.error)
        ELSE ForPages([s1 EXCEPT !.resps = Append(@, r.data),
                                 !.queue = BatchPages(r.data)])

\* Variant of OnRenderThrow: the failure is caught per page and the loop goes on.
OnRenderThrowSkipsPage(s, message) ==
    ForPages([s EXCEPT !.log = Append(@, message), !.queue = Tail(@)])

\* renderPng threw inside the for..of: the exception leaves both loops.
OnRenderThrow(s, message) == Catch(s, message)

\* await renderPng(...) settled.
OnRenderReturn(s, failAt) ==
    LET r  == renderPng(Head(s.queue), failAt)
        s1 == [s EXCEPT !.pendingRender = @ - 1, !.lastRender = r]
    IN  IF r.threw THEN OnRenderThrow(s1, r.error)
        ELSE ForPages([EntryPush(s1, Len(s1.entries), r.png, PushFinal)
                          EXCEPT !.queue = Tail(@)])

\* Variant of OnCloseReturn: a rejection of browser.close() leaves the finally.
OnCloseReturnUnguarded(s, ok) ==
    IF ok THEN [ZipEnd(s) EXCEPT !.browser = "closed", !.bpc = "done"]
    ELSE [s EXCEPT !.browser = "closeFailed", !.bpc = "rejected"]

\* await browser.close() settled (a rejection is swallowed), then zip.end().
OnCloseReturn(s, ok) ==
    [ZipEnd(s) EXCEPT !.browser = IF ok THEN "closed" ELSE "closeFailed",
                      !.bpc = "done"]

(***************************************************************************)
(* The fetch handler.                                                      *)
(***************************************************************************)
Respond(s, resp) == [s EXCEPT !.response = resp, !.hpc = "done"]

\* streamZipResponse, ctx.waitUntil(task) up to the task's first await, and
\* return response: one synchronous stretch of the handler.
StartBackground(s, outputUrl, outputId) ==
    [streamZipResponse(s) EXCEPT !.launches = @ + 1,
                                 !.bpc = "launch",
                                 !.response = ZipResponse("bang_con_png.zip", outputUrl, outputId),
                                 !.hpc = "done"]

\* appsPost({action: "prepare", ...}) of /api/prepare and /api/run.
CallPrepare(s, waitAt) ==
    IF ~s.req.appsUrl THEN Respond(s, errJson("Missing env.APPS_SCRIPT_URL", 500))
    ELSE [s EXCEPT !.calls = Append(@, [action |-> "prepare",
                                         fileName |-> "upload.xlsx"]),
                   !.hpc = waitAt]

\* request.formData() and the file check of /api/prepare and /api/run.
Upload(s, waitAt) ==
    IF ~s.req.bodyOk THEN Respond(s, errJson("Failed to parse body", 500))
    ELSE IF ~s.req.hasFile THEN Respond(s, errJson("Thieu file", 400))
    ELSE CallPrepare(s, waitAt)

Render(s) ==
    IF ~s.req.bodyOk THEN Respond(s, errJson("Failed to parse body", 500))
    ELSE LET outputSpreadsheetId == Trim(StringOrEmpty(s.req.bodyId))
         IN  IF outputSpreadsheetId = ""
             THEN Respond(s, errJson("Thieu outputSpreadsheetId", 400))
             ELSE StartBackground(s, "", outputSpreadsheetId)

\* Variant of HandleRequest: the method is checked before the key.
HandleRequestMethodFirst(s) ==
    LET r == s.req
    IN  IF r.method = "OPTIONS"
        THEN Respond(s, [status |-> 204, ctype |-> "", body |-> NullStr])
        ELSE IF r.method = "GET"
        THEN Respond(s, json([ok |-> TRUE,
                              endpoints |-> <<"/api/prepare", "/api/render", "/api/run">>],
                             200))
        ELSE IF r.method # "POST" THEN Respond(s, errJson("Method Not Allowed", 405))
        ELSE IF requireKey(r) # NullStr THEN Respond(s, errJson(requireKey(r), 401))
        ELSE IF r.path = "/api/prepare" THEN Upload(s, "prepare")
        ELSE IF r.path = "/api/render" THEN Render(s)
        ELSE IF r.path = "/api/run" THEN Upload(s, "runPrepare")
        ELSE Respond(s, errJson("Not Found", 404))

HandleRequest(s) ==
    LET r == s.req
    IN  IF r.method = "OPTIONS"
        THEN Respond(s, [status |-> 204, ctype |-> "", body |-> NullStr])
        ELSE IF r.method = "GET"
        THEN Respond(s, json([ok |-> TRUE,
                              endpoints |-> <<"/api/prepare", "/api/render", "/api/run">>],
                             200))
        ELSE IF requireKey(r) # NullStr THEN Respond(s, errJson(requireKey(r), 401))
        ELSE IF r.method # "POST" THEN Respond(s, errJson("Method Not Allowed", 405))
        ELSE IF r.path = "/api/prepare" THEN Upload(s, "prepare")
        ELSE IF r.path = "/api/render" THEN Render(s)
        ELSE IF r.path = "/api/run" THEN Upload(s, "runPrepare")
        ELSE Respond(s, errJson("Not Found", 404))

\* Variant of OnPrepareReturn: the backend's object is wrapped in an envelope.
OnPrepareReturnWraps(s, reply) ==
    LET r  == appsPost(reply)
        s1 == [s EXCEPT !.prepReply = reply]
    IN  IF r.threw THEN Respond(s1, errJson(r.error, 500))
        ELSE Respond(s1, json([ok |-> TRUE, data |-> r.data], 200))

\* /api/prepare: await appsPost settled.
OnPrepareReturn(s, reply) ==
    LET r  == appsPost(reply)
        s1 == [s EXCEPT !.prepReply = reply]
    IN  IF r.threw THEN Respond(s1, errJson(r.error, 500))
        ELSE Respond(s1, json(r.data, 200))

\* Variant of OnRunPrepareReturn: a prepare failure is reported through the stream.
OnRunPrepareReturnStreamsError(s, reply) ==
    LET r  == appsPost(reply)
        s1 == [s EXCEPT !.prepReply = reply]
    IN  IF r.threw THEN StartBackground(s1, UndefinedStr, UndefinedStr)
        ELSE StartBackground([s1 EXCEPT !.prep = r.data],
                             r.data.output_url, r.data.outputSpreadsheetId)

\* /api/run: await appsPost settled.
OnRunPrepareReturn(s, reply) ==
    LET r  == appsPost(reply)
        s1 == [s EXCEPT !.prepReply = reply]
    IN  IF r.threw THEN Respond(s1, errJson(r.error, 500))
        ELSE StartBackground([s1 EXCEPT !.prep = r.data],
                             r.data.output_url, r.data.outputSpreadsheetId)

(***************************************************************************)
(* What the outside world can send: requests, backend replies.             *)
(***************************************************************************)
BaseReq ==
    [method |-> "POST", path |-> "/api/render", apiKey |-> "", xApiKey |-> UndefinedStr,
     appsUrl |-> TRUE, bodyOk |-> TRUE, hasFile |-> FALSE, bodyId |-> UndefinedStr,
     selectedHeaders |-> UndefinedStr]

Methods == {"OPTIONS", "GET", "POST", "PUT"}
Paths == {"/api/prepare", "/api/render", "/api/run", "/"}

\* Requests that differ in method, path and key only (no file, no identifier).
RoutingRequests ==
    {[BaseReq EXCEPT !.method = m, !.path = p, !.apiKey = k, !.xApiKey = x] :
        m \in Methods, p \in Paths, k \in {"", "k1"}, x \in {UndefinedStr, "k1", "k2"}}

\* POST requests that pass the key check and differ in their payload.
RenderRequests ==
    {[BaseReq EXCEPT !.path = "/api/render", !.bodyOk = b, !.bodyId = i,
                     !.selectedHeaders = h, !.appsUrl = u] :
        b \in BOOLEAN, i \in {UndefinedStr, "", "  ", "sid"},
        h \in {UndefinedStr, "[A]"}, u \in BOOLEAN}

UploadRequests ==
    {[BaseReq EXCEPT !.path = p, !.bodyOk = b, !.hasFile = f,
                     !.selectedHeaders = h, !.appsUrl = u] :
        p \in {"/api/prepare", "/api/run"}, b \in BOOLEAN, f \in BOOLEAN,
        h \in {UndefinedStr, "", "[]", "[A]"}, u \in BOOLEAN}

KeyedRequests ==
    {[BaseReq EXCEPT !.apiKey = "k1", !.xApiKey = "k1", !.bodyId = " sid "]}

Requests == RoutingRequests \cup RenderRequests \cup UploadRequests \cup KeyedRequests

NoJson == [ok |-> FALSE, error |-> UndefinedStr]

JsonReply(obj) ==
    [net |-> "ok", ct |-> "application/json", text |-> "{json}", json |-> obj]

FailReplies ==
    {[net |-> "error", ct |-> "", text |-> "", json |-> NoJson],
     [net |-> "ok", ct |-> "Text/HTML", text |-> "{json}", json |-> [ok |-> TRUE]],
     [net |-> "ok", ct |-> "application/json",
      text |-> " <!doctype html><title>Sign in</title>", json |-> NoJson],
     [net |-> "ok", ct |-> "application/json", text |-> "Service unavailable",
      json |-> NoJson],
     JsonReply([ok |-> FALSE, error |-> "no such spreadsheet"]),
     JsonReply([ok |-> FALSE, error |-> UndefinedStr])}

PreparePayloads ==
    {[ok |-> TRUE, outputSpreadsheetId |-> "sid", output_url |-> "url", headers |-> "[P]"],
     [ok |-> TRUE, outputSpreadsheetId |-> "sid", output_url |-> UndefinedStr,
      headers |-> UndefinedStr],
     [ok |-> TRUE, outputSpreadsheetId |-> UndefinedStr, output_url |-> "url",
      headers |-> "[P]"]}

\* The prepare call also meets a long non-JSON body.
PrepareReplies ==
    FailReplies
    \cup {[net |-> "ok", ct |-> "application/json", text |-> LongText, json |-> NoJson]}
    \cup {JsonReply(p) : p \in PreparePayloads}

NextOffsets == {Undefined, 3, Limit}

\* The PageDescriptors of the batches rs, in the order received.
RECURSIVE ReceivedPages(_)
ReceivedPages(rs) == IF rs = <<>> THEN <<>> ELSE Head(rs).pages \o ReceivedPages(Tail(rs))

\* A batch of n fresh pages; the backend may say done=false only while the
\* model's bound on the number of batches allows another call.
BuildPayloads(rs) ==
    LET k == Len(ReceivedPages(rs))
        dones == IF Len(rs) + 1 < MaxBatches THEN BOOLEAN ELSE {TRUE}
    IN  {[ok |-> TRUE, hasPages |-> TRUE, pages |-> [i \in 1..n |-> k + i],
          done |-> d, nextOffset |-> o] :
            n \in 0..MaxPagesPerBatch, d \in dones, o \in NextOffsets}
        \cup
        {[ok |-> TRUE, hasPages |-> FALSE, pages |-> <<>>, done |-> d, nextOffset |-> o] :
            d \in dones, o \in NextOffsets}

BuildReplies(rs) == FailReplies \cup {JsonReply(p) : p \in BuildPayloads(rs)}

(***************************************************************************)
(* The state machine.                                                      *)
(***************************************************************************)
\* No reply to the prepare call yet.
NoReply == [net |-> "none", ct |-> "", text |-> "", json |-> NoJson]

NoPrep ==
    [ok |-> FALSE, outputSpreadsheetId |-> UndefinedStr, output_url |-> UndefinedStr,
     headers |-> UndefinedStr]

Init ==
    /\ req \in Requests
    /\ hpc = "recv"
    /\ response = NoResponse
    /\ prepReply = NoReply
    /\ prep = NoPrep
    /\ bpc = "idle"
    /\ offset = Undefined
    /\ queue = <<>>
    /\ calls = <<>>
    /\ resps = <<>>
    /\ entries = <<>>
    /\ pendingBuild = 0
    /\ pendingRender = 0
    /\ lastRender = NoRender
    /\ launches = 0
    /\ browser = "none"
    /\ closes = 0
    /\ zipEnds = 0
    /\ writer = "none"
    /\ log = <<>>

Receive == hpc = "recv" /\ Set(HandleRequest(Cur))

PrepareReturn ==
    /\ hpc = "prepare"
    /\ \E reply \in PrepareReplies : Set(OnPrepareReturn(Cur, reply))

RunPrepareReturn ==
    /\ hpc = "runPrepare"
    /\ \E reply \in PrepareReplies : Set(OnRunPrepareReturn(Cur, reply))

LaunchReturn == bpc = "launch" /\ Set(OnLaunchOk(Cur))

LaunchFail == bpc = "launch" /\ Set(OnLaunchFail(Cur))

BuildReturn ==
    /\ bpc = "build"
    /\ \E reply \in BuildReplies(resps) : Set(OnBuildReturn(Cur, reply))

RenderReturn ==
    /\ bpc = "render"
    /\ \E failAt \in RenderFailPoints : Set(OnRenderReturn(Cur, failAt))

CloseReturn ==
    /\ bpc = "close"
    /\ \E ok \in BOOLEAN : Set(OnCloseReturn(Cur, ok))

Next ==
    \/ Receive
    \/ PrepareReturn
    \/ RunPrepareReturn
    \/ LaunchReturn
    \/ LaunchFail
    \/ BuildReturn
    \/ RenderReturn
    \/ CloseReturn

Spec == Init /\ [][Next]_vars

\* Every awaited external call eventually settles.
FairSpec == Spec /\ WF_vars(Next)

(***************************************************************************)
(* Vocabulary of the properties.                                           *)
(***************************************************************************)
BuildCalls == SelectSeq(calls, LAMBDA c : c.action = "buildPages")

StreamOpened == writer # "none"

TaskOver == bpc \in {"done", "rejected"}

\* The loop was left through done=true and nothing was caught.
CompletedRun == bpc \in {"close", "done"} /\ log = <<>>

IsZipResponse(r) == r.ctype = "application/zip"

\* The request got past OPTIONS/GET, the key check and the method check.
Routed(path) == req.method = "POST" /\ requireKey(req) = NullStr /\ req.path = path

ZipState ==
    IF zipEnds > 0 THEN "Finalized" ELSE IF StreamOpened THEN "Streaming" ELSE "Idle"

(***************************************************************************)
(* C1: for every request that opened the archive stream, zip.end is        *)
(* called exactly once per run on every path (completion, backend          *)
(* failure, rendering failure, failure to launch the browser): never       *)
(* twice, and once the background task is over never zero times.           *)
(***************************************************************************)
C1_ZipEndExactlyOnce ==
    /\ zipEnds <= 1
    /\ (StreamOpened /\ TaskOver) => zipEnds = 1

(***************************************************************************)
(* C2: once the zip response has been handed to the client, the stream's   *)
(* writer is eventually closed or aborted, whatever fails in the           *)
(* background task.                                                        *)
(***************************************************************************)
C2_WriterEventuallyClosed ==
    IsZipResponse(response) ~> (writer \in {"closed", "aborted"})

(***************************************************************************)
(* C3: in a completed run the entries added to the archive are exactly     *)
(* the pages received over all batches (the done batch included), each     *)
(* once and in the order received.                                         *)
(***************************************************************************)
C3_EntriesAreReceivedPages ==
    CompletedRun =>
        /\ Len(entries) = Len(ReceivedPages(resps))
        /\ \A i \in 1..Len(entries) : entries[i].page = ReceivedPages(resps)[i]

C3_Witness ==
    /\ CompletedRun
    /\ Len(resps) >= 2
    /\ Len(resps[1].pages) >= 1
    /\ Len(resps[Len(resps)].pages) >= 2
    /\ Len(entries) >= 3

(***************************************************************************)
(* C4: the loop stops exactly when a batch with done=true is received,     *)
(* whatever its nextOffset: no batch before the last received one is       *)
(* done, no call follows a done batch, a batch that is not done (an empty  *)
(* one included) is followed by another call, and a completed run of N     *)
(* batches issued exactly N buildPages calls.                              *)
(***************************************************************************)
C4_StopsExactlyOnDone ==
    /\ \A i \in 1..(Len(resps) - 1) : ~resps[i].done
    /\ Len(BuildCalls) \in {Len(resps), Len(resps) + 1}
    /\ (resps # <<>> /\ resps[Len(resps)].done) => Len(BuildCalls) = Len(resps)
    /\ (resps # <<>> /\ ~resps[Len(resps)].done /\ log = <<>> /\ queue = <<>>)
          => (bpc = "build" /\ Len(BuildCalls) = Len(resps) + 1)
    /\ CompletedRun =>
          (resps # <<>> /\ resps[Len(resps)].done /\ Len(BuildCalls) = Len(resps))

C4_Witness ==
    /\ CompletedRun
    /\ Len(resps) = MaxBatches
    /\ resps[1].pages = <<>>
    /\ resps[Len(resps)].nextOffset = 3
    /\ Len(BuildCalls) = MaxBatches

(***************************************************************************)
(* C5: the first buildPages call carries offset 0, every later one the     *)
(* nextOffset of the response just before it, and every call limit 10.     *)
(***************************************************************************)
C5_OffsetFollowsBackend ==
    \A i \in 1..Len(BuildCalls) :
        /\ BuildCalls[i].limit = 10
        /\ BuildCalls[i].offset = IF i = 1 THEN 0 ELSE resps[i - 1].nextOffset

C5_Witness ==
    /\ Len(BuildCalls) >= 2
    /\ resps[1].nextOffset = 3
    /\ BuildCalls[2].offset = 3

(***************************************************************************)
(* C6: a /api/render request whose outputSpreadsheetId is empty or         *)
(* missing, and a /api/run request whose prepare result carries an empty   *)
(* or missing outputSpreadsheetId, is answered 400 without launching the   *)
(* browser or opening the archive stream.                                  *)
(***************************************************************************)
EmptyIdentifier ==
    \/ Routed("/api/render") /\ req.bodyOk /\ Trim(StringOrEmpty(req.bodyId)) = ""
    \/ Routed("/api/run") /\ prep.ok /\ ~Truthy(prep.outputSpreadsheetId)

C6_EmptyIdentifierIs400 ==
    (hpc = "done" /\ EmptyIdentifier) =>
        (response.status = 400 /\ launches = 0 /\ ~StreamOpened)

(***************************************************************************)
(* C7: the background task is strictly sequential: at most one backend     *)
(* call outstanding, at most one render outstanding, at most one entry     *)
(* open; every entry but the last added one has had its final push, and    *)
(* no entry is open while a batch is being requested.                      *)
(***************************************************************************)
C7_StrictlySequential ==
    /\ pendingBuild <= 1
    /\ pendingRender <= 1
    /\ pendingBuild + pendingRender <= 1
    /\ Cardinality(OpenEntries(entries)) <= 1
    /\ \A i \in 1..(Len(entries) - 1) : ~entries[i].open /\ entries[i].data = entries[i].page
    /\ pendingBuild > 0 => OpenEntries(entries) = {}

C7_Witness ==
    /\ Len(entries) >= 3
    /\ pendingRender = 1
    /\ entries[Len(entries)].open
    /\ Len(resps) >= 2

(***************************************************************************)
(* C8: the archive writer goes Idle -> Streaming -> Finalized and never    *)
(* leaves Finalized: once zip.end has been called no entry is added and    *)
(* no entry is pushed to, and once a failure was caught in the loop no     *)
(* further entry is added.                                                 *)
(***************************************************************************)
C8_WriterStateMachine ==
    [][/\ ZipState = "Idle" => ZipState' \in {"Idle", "Streaming"}
       /\ ZipState = "Streaming" => ZipState' \in {"Streaming", "Finalized"}
       /\ ZipState = "Finalized" => (ZipState' = "Finalized" /\ entries' = entries)
       /\ ZipState' = "Idle" => entries' = <<>>
       /\ log # <<>> => entries' = entries]_vars

C8_Witness ==
    /\ ZipState = "Finalized"
    /\ log # <<>>
    /\ Len(entries) = 2
    /\ entries[2].open
    /\ Len(resps[1].pages) = 2

(***************************************************************************)
(* C9: a routed /api/render request with a non-empty identifier, and a     *)
(* /api/run request whose prepare step succeeded, is answered with the     *)
(* 200 application/zip response in the very step that opens the stream,    *)
(* while the background task is still at its first await; nothing the      *)
(* task does afterwards changes that response.                             *)
(***************************************************************************)
StreamingRequest ==
    \/ Routed("/api/render") /\ req.bodyOk /\ Trim(StringOrEmpty(req.bodyId)) # ""
    \/ Routed("/api/run") /\ prep.ok

C9_ResponseCommittedFirst ==
    /\ [](hpc = "done" /\ StreamingRequest
             => response.status = 200 /\ IsZipResponse(response))
    /\ [][/\ (~StreamOpened /\ StreamOpened')
               => (response'.status = 200 /\ IsZipResponse(response')
                   /\ hpc' = "done" /\ bpc' = "launch")
          /\ IsZipResponse(response) => response' = response]_vars

C9_Witness ==
    /\ response.status = 200
    /\ IsZipResponse(response)
    /\ bpc = "done"
    /\ log # <<>>
    /\ entries # <<>>

(***************************************************************************)
(* C10: when the prepare step of /api/run fails (no file, or appsPost      *)
(* throws) the client gets a JSON error {ok:false, error} and no stream    *)
(* is opened, no browser launched and no buildPages call made; and in      *)
(* /api/run a successful prepare call comes before the stream and before   *)
(* every buildPages call.                                                  *)
(***************************************************************************)
C10_PrepareFailureIsJsonError ==
    /\ (Routed("/api/run") /\ hpc = "done" /\ ~prep.ok) =>
          /\ response.ctype = "application/json; charset=utf-8"
          /\ response.status \in {400, 500}
          /\ response.body.ok = FALSE
          /\ Truthy(response.body.error)
          /\ ~StreamOpened
          /\ launches = 0
          /\ BuildCalls = <<>>
    /\ (req.path = "/api/run" /\ (StreamOpened \/ launches > 0 \/ BuildCalls # <<>>)) =>
          /\ calls # <<>>
          /\ calls[1].action = "prepare"
          /\ prep.ok

C10_Witness ==
    /\ Routed("/api/run")
    /\ hpc = "done"
    /\ Len(calls) = 1
    /\ calls[1].action = "prepare"
    /\ response.status = 500
    /\ response.body.error = HtmlMessage \o "<!doctype html><title>Sign in</title>"

(***************************************************************************)
(* C11: in /api/run every buildPages call carries the identifier the       *)
(* prepare step returned, and as header filter the caller's list when the  *)
(* caller sent one (an empty list included), the prepare step's headers    *)
(* otherwise; so both are the same on every batch of the run.              *)
(***************************************************************************)
C11_RunUsesPrepareResult ==
    Routed("/api/run") =>
        \A i \in 1..Len(BuildCalls) :
            /\ BuildCalls[i].outputSpreadsheetId = prep.outputSpreadsheetId
            /\ BuildCalls[i].selectedHeaders =
                   IF IsArray(req.selectedHeaders) THEN req.selectedHeaders
                   ELSE prep.headers

C11_Witness ==
    /\ Routed("/api/run")
    /\ req.selectedHeaders = "[]"
    /\ prep.headers = "[P]"
    /\ Len(BuildCalls) = 2
    /\ BuildCalls[2].selectedHeaders = "[]"
    /\ BuildCalls[2].outputSpreadsheetId = "sid"

(***************************************************************************)
(* C12: the offsets sent to the backend within a run are numbers that      *)
(* never decrease, whatever the backend answers (a smaller nextOffset or   *)
(* none at all included).                                                  *)
(***************************************************************************)
C12_OffsetsNonDecreasing ==
    \A i \in 1..(Len(BuildCalls) - 1) :
        /\ BuildCalls[i].offset # Undefined
        /\ BuildCalls[i + 1].offset # Undefined
        /\ BuildCalls[i].offset <= BuildCalls[i + 1].offset

(***************************************************************************)
(* C13: with an API key configured, a POST request whose X-API-Key is      *)
(* missing or different is answered 401 with a JSON error and causes no    *)
(* backend call, no browser launch and no stream; with no key configured   *)
(* no request is answered 401.                                             *)
(***************************************************************************)
KeyRejected == req.apiKey # "" /\ StringOrEmpty(req.xApiKey) # req.apiKey

C13_KeyEnforced ==
    /\ (req.method = "POST" /\ KeyRejected) =>
          /\ calls = <<>>
          /\ launches = 0
          /\ ~StreamOpened
          /\ hpc = "done" =>
                /\ response.status = 401
                /\ response.ctype = "application/json; charset=utf-8"
                /\ response.body = [ok |-> FALSE, error |-> "Unauthorized"]
    /\ req.apiKey = "" => response.status # 401

C13_Witness ==
    /\ req.method = "POST"
    /\ req.path = "/api/run"
    /\ req.apiKey = "k1"
    /\ req.xApiKey = UndefinedStr
    /\ hpc = "done"
    /\ response.status = 401

(***************************************************************************)
(* C14: every request whose method is not GET, OPTIONS or POST is answered *)
(* 405 with a JSON error, whatever its path and its X-API-Key.             *)
(***************************************************************************)
OtherMethod == req.method \notin {"GET", "OPTIONS", "POST"}

C14_OtherMethodIs405 ==
    (hpc = "done" /\ OtherMethod) =>
        (response.status = 405 /\ response.body = [ok |-> FALSE, error |-> "Method Not Allowed"])

(***************************************************************************)
(* C14, amended: such a request is answered 405 when it passes the key     *)
(* check (no key configured, or X-API-Key equal to it) and 401 when a key  *)
(* is configured and X-API-Key is missing or different; whatever its path. *)
(***************************************************************************)
C14_OtherMethodIs405AfterKey ==
    (hpc = "done" /\ OtherMethod) =>
        /\ ~KeyRejected =>
              (response.status = 405
               /\ response.body = [ok |-> FALSE, error |-> "Method Not Allowed"])
        /\ KeyRejected =>
              (response.status = 401
               /\ response.body = [ok |-> FALSE, error |-> "Unauthorized"])
        /\ calls = <<>> /\ launches = 0 /\ ~StreamOpened

C14_Witness ==
    /\ hpc = "done"
    /\ req.method = "PUT"
    /\ req.path = "/api/run"
    /\ req.apiKey = "k1"
    /\ req.xApiKey = "k1"
    /\ response.status = 405

(***************************************************************************)
(* C15: a routed /api/prepare request with a file, to which the backend    *)
(* replies JSON with ok=true, is answered 200 with exactly the backend's   *)
(* object as body, after exactly one backend call, of action "prepare";    *)
(* without a file it is answered 400 and no backend call is made.          *)
(***************************************************************************)
BackendSaidOk(r) ==
    r.net = "ok" /\ r.ct = "application/json" /\ r.text = "{json}" /\ r.json.ok

C15_PreparePassThrough ==
    Routed("/api/prepare") =>
        /\ Len(calls) <= 1
        /\ (hpc = "done" /\ req.bodyOk /\ ~req.hasFile) =>
              (response.status = 400 /\ response.body.ok = FALSE /\ calls = <<>>)
        /\ (hpc = "done" /\ BackendSaidOk(prepReply)) =>
              /\ req.hasFile
              /\ response.status = 200
              /\ response.ctype = "application/json; charset=utf-8"
              /\ response.body = prepReply.json
              /\ Len(calls) = 1
              /\ calls[1].action = "prepare"

C15_Witness ==
    /\ Routed("/api/prepare")
    /\ hpc = "done"
    /\ BackendSaidOk(prepReply)
    /\ response.status = 200
    /\ response.body.outputSpreadsheetId = "sid"
    /\ response.body.headers = "[P]"

(***************************************************************************)
(* C16: appsPost never hands back a reply that is HTML-shaped (content     *)
(* type text/html, or a body starting with '<' once trimmed), that is not  *)
(* JSON, or whose ok flag is falsy: it throws, with the first 200          *)
(* characters of the body in the HTML and non-JSON cases and the           *)
(* backend's error text in the ok=false case; the HTML check comes first,  *)
(* so an HTML-typed reply with a JSON body is rejected as HTML.  Seen      *)
(* through the prepare call of /api/prepare and /api/run, whose handler    *)
(* turns the error into the 500 response.                                  *)
(***************************************************************************)
C16_AppsPostRejects ==
    (hpc = "done" /\ prepReply.net = "ok") =>
        LET trimmed    == Trim(prepReply.text)
            htmlShaped == CtIsHtml(prepReply.ct) \/ StartsWithLt(trimmed)
            notJson    == ~htmlShaped /\ ~IsJsonText(trimmed)
            notOk      == ~htmlShaped /\ IsJsonText(trimmed) /\ ~prepReply.json.ok
        IN  /\ htmlShaped => response = errJson(HtmlMessage \o Slice200(trimmed), 500)
            /\ notJson => response = errJson(NotJsonMessage \o Slice200(trimmed), 500)
            /\ prepReply.text = LongText
                  => response.body.error = NotJsonMessage \o LongTextHead
            /\ notOk => response =
                  errJson(IF Truthy(prepReply.json.error) THEN prepReply.json.error
                          ELSE "Apps Script error", 500)
            /\ (htmlShaped \/ notJson \/ notOk) => (~prep.ok /\ ~StreamOpened)

C16_Witness ==
    /\ hpc = "done"
    /\ prepReply.net = "ok"
    /\ CtIsHtml(prepReply.ct)
    /\ prepReply.text = "{json}"
    /\ prepReply.json.ok
    /\ response.status = 500
    /\ response.body.error = HtmlMessage \o "{json}"

(***************************************************************************)
(* C17: a background task launches the browser once, every render of the   *)
(* run uses that open handle, browser.close is called exactly once on      *)
(* every path on which the launch succeeded, before zip.end, and a         *)
(* rejected browser.close does not prevent zip.end.                        *)
(***************************************************************************)
C17_BrowserAcquiredAndReleasedOnce ==
    /\ launches <= 1
    /\ closes <= 1
    /\ browser # "none" => launches = 1
    /\ pendingRender > 0 => (browser = "open" /\ closes = 0)
    /\ closes = 1 => browser \in {"open", "closed", "closeFailed"}
    /\ browser \in {"closed", "closeFailed"} => (closes = 1 /\ zipEnds = 1)
    /\ zipEnds > 0 => closes = 1
    /\ (browser = "open" /\ bpc \in {"close", "done"}) => closes = 1
    /\ bpc = "done" => (browser \in {"closed", "closeFailed"} /\ zipEnds = 1)
    /\ (launches = 1 /\ browser # "failed" /\ TaskOver) => closes = 1

C17_Witness ==
    /\ bpc = "done"
    /\ browser = "closeFailed"
    /\ closes = 1
    /\ zipEnds = 1
    /\ lastRender.threw
    /\ Len(entries) >= 3

(***************************************************************************)
(* C18: once renderPng has opened its page it closes it on every path      *)
(* (screenshot succeeded, screenshot failed, setViewport or setContent     *)
(* failed), and a failure of the font wait does not abort the render.      *)
(***************************************************************************)
C18_PageAlwaysClosed ==
    /\ lastRender.opened => lastRender.closed
    /\ lastRender.failAt = "evaluate" => (~lastRender.threw /\ lastRender.png # 0)

(***************************************************************************)
(* C19: nothing is retried.  A failed buildPages call or render is caught  *)
(* and logged with browser.close called; once that has happened no         *)
(* further backend call, render or entry is made, and the only step left   *)
(* is the settlement of browser.close followed by zip.end.                 *)
(***************************************************************************)
BuildFailsNow == pendingBuild = 1 /\ pendingBuild' = 0 /\ resps' = resps

RenderFailsNow == pendingRender = 1 /\ pendingRender' = 0 /\ lastRender'.threw

C19_NoRetry ==
    [][/\ (BuildFailsNow \/ RenderFailsNow) =>
             /\ Len(log') = 1
             /\ bpc' = "close"
             /\ closes' = 1
             /\ calls' = calls
             /\ entries' = entries
       /\ log # <<>> =>
             /\ calls' = calls
             /\ entries' = entries
             /\ pendingBuild' = 0
             /\ pendingRender' = 0
             /\ launches' = launches
             /\ log' = log
             /\ bpc = "close" /\ bpc' = "done"
             /\ closes' = closes
             /\ zipEnds' = zipEnds + 1]_vars

C19_Witness ==
    /\ bpc = "done"
    /\ Len(log) = 1
    /\ Len(BuildCalls) = 2
    /\ Len(resps) = 1
    /\ Len(entries) = 2
    /\ closes = 1
    /\ zipEnds = 1

(***************************************************************************)
(* C20: when zip.end is called every added entry has been closed with the  *)
(* image of its page, on every path, a rendering failure for the entry's   *)
(* page included.                                                          *)
(***************************************************************************)
C20_EntriesClosedAtEnd ==
    zipEnds > 0 =>
        \A i \in 1..Len(entries) : ~entries[i].open /\ entries[i].data = entries[i].page

====
